---- MODULE Spec2Model ----
(***************************************************************************)
(* A model of src/main.py, the "Dynamic Pizza Creation Option Prompter":   *)
(* the menu download with its cache fallback, the cart file, the command   *)
(* loop with the pizza editor, and the order writer.                       *)
(*                                                                         *)
(* One state is the program waiting at a prompt (or not running), together *)
(* with the three kinds of file it keeps.  One action is the user's answer *)
(* to that prompt and all the code that runs until the next prompt.        *)
(***************************************************************************)
EXTENDS Integers, Sequences, FiniteSets, TLC

(***************************************************************************)
(* Bounds of the model.                                                    *)
(***************************************************************************)
\* the longest cart the user builds
MaxCart == 2
\* datetime.today() answers one of the seconds 1..MaxStamp
MaxStamp == 1
\* how many I/O operations fail (raise OSError) in one behaviour
MaxFaults == 1
\* how many iterations of create_order's search loop are followed
MaxProbes == 3
\* how many times the program is started
MaxRuns == 2

(***************************************************************************)
(* Python values.  None is Python's None (JSON null); a dict is a function *)
(* on its keys; a list is a sequence.  A dict key that is not a str is     *)
(* written "int:5" (the int 5), which json.dumps writes as the key "5".    *)
(***************************************************************************)
None == "<None>"
EmptyDict == [k \in {} |-> 0]
NonStrKeys == {"int:5"}

IsStr(k) == k \notin NonStrKeys

JsonKey(k) == IF k = "int:5" THEN "5" ELSE k

Truthy(s) == s # None /\ s # ""

(***************************************************************************)
(* Menu documents: what the endpoint or the cache file may hold.  A body   *)
(* is text that either parses as JSON (json = TRUE, doc its value) or not. *)
(* A document may lack "base_options" or "toppings"; an entry of           *)
(* base_options may lack "category" or "options".                          *)
(***************************************************************************)
SizeOptions == [small |-> 800, large |-> 1200]
CrustOptions == [thin |-> 200]
CheeseToppings == [cheese |-> 150]

Entry(hc, c, ho, o) == [has_category |-> hc, category |-> c, has_options |-> ho, options |-> o]

SizeEntry == Entry(TRUE, "size", TRUE, SizeOptions)
CrustEntry == Entry(TRUE, "crust", TRUE, CrustOptions)
NoCategoryEntry == Entry(FALSE, "", TRUE, SizeOptions)
IntCategoryEntry == Entry(TRUE, "int:5", TRUE, SizeOptions)
NoOptionsEntry == Entry(TRUE, "size", FALSE, EmptyDict)
EmptyOptionsEntry == Entry(TRUE, "size", TRUE, EmptyDict)

Entries == {SizeEntry, CrustEntry, NoCategoryEntry, IntCategoryEntry, NoOptionsEntry, EmptyOptionsEntry}

Doc(hb, b, ht, t) == [has_base_options |-> hb, base_options |-> b, has_toppings |-> ht, toppings |-> t]

BaseLists == {<<>>} \cup {<<e>> : e \in Entries} \cup {<<SizeEntry, e>> : e \in Entries}

ToppingChoices == {<<FALSE, EmptyDict>>, <<TRUE, EmptyDict>>, <<TRUE, CheeseToppings>>}

Docs == {Doc(TRUE, b, t[1], t[2]) : b \in BaseLists, t \in ToppingChoices}
            \cup {Doc(FALSE, <<>>, t[1], t[2]) : t \in ToppingChoices}

GoodDoc == Doc(TRUE, <<SizeEntry, CrustEntry>>, TRUE, CheeseToppings)

Body(j, d) == [json |-> j, doc |-> d]
GarbageBody == Body(FALSE, Doc(FALSE, <<>>, FALSE, EmptyDict))
AllBodies == {GarbageBody} \cup {Body(TRUE, d) : d \in Docs}
MainBodies == {GarbageBody, Body(TRUE, GoodDoc)}

\* requests.get: a transport failure (requests.ConnectionError, Timeout), a
\* non-2xx status (raise_for_status raises requests.HTTPError), or a 2xx body
Response(k, b) == [kind |-> k, body |-> b]
Responses(bodies) == {Response("transport", GarbageBody), Response("http_error", GarbageBody)}
                        \cup {Response("ok", b) : b \in bodies}

\* the cache file: absent, or holding a body
File(e, b) == [exists |-> e, body |-> b]
NoFile == File(FALSE, GarbageBody)
CacheFiles == {NoFile} \cup {File(TRUE, b) : b \in AllBodies}

(***************************************************************************)
(* download_ingredients.  io names the I/O operation that raises in this   *)
(* call ("ok": none): "open" and "write" for the cache write, "exists" and *)
(* "read" for the cache fallback.                                          *)
(***************************************************************************)
Fetched(s, d, c, o) == [status |-> s, doc |-> d, cache |-> c, out |-> o]

\* lines 52-59: try to cache the response text; a failure is printed only
WriteCache(cache, body, io) ==
    CASE io = "open"  -> [cache |-> cache, out |-> {"Error saving ingredients cache file"}]
      [] io = "write" -> [cache |-> File(TRUE, GarbageBody), out |-> {"Error saving ingredients cache file"}]
      [] OTHER        -> [cache |-> File(TRUE, body), out |-> {}]

\* lines 67-89: the handler of requests.HTTPError
ReadCache(cache, io) ==
    IF io = "exists"
    THEN Fetched("fail", GarbageBody.doc, cache,
                 {"Failed to check cache file existence",
                  "Unable to connect to endpoint, and cannot read ingredients cache"})
    ELSE IF ~cache.exists
    THEN Fetched("fail", GarbageBody.doc, cache,
                 {"Unable to connect to endpoint, and cannot read ingredients cache"})
    ELSE IF io = "read" \/ ~cache.body.json
    THEN Fetched("fail", GarbageBody.doc, cache, {"Error reading ingredients cache file"})
    ELSE Fetched("json", cache.body.doc, cache, {"Server is offline; loading cached ingredients"})

\* the variant that treats a malformed body like an unreachable server
FetchIngredientsOrCache(resp, cache, io) ==
    IF resp.kind = "transport" THEN Fetched("raise", GarbageBody.doc, cache, {})
    ELSE IF resp.kind = "http_error" \/ ~resp.body.json THEN ReadCache(cache, io)
    ELSE LET w == WriteCache(cache, resp.body, io)
         IN  Fetched("json", resp.body.doc, w.cache, w.out)

\* lines 44-89: ask the server first.  Only json.JSONDecodeError and
\* requests.HTTPError are caught: a transport failure leaves the function
\* as an exception.
FetchIngredients(resp, cache, io) ==
    CASE resp.kind = "transport"  -> Fetched("raise", GarbageBody.doc, cache, {})
      [] resp.kind = "http_error" -> ReadCache(cache, io)
      [] OTHER ->
            IF ~resp.body.json
            THEN Fetched("fail", GarbageBody.doc, cache,
                         {"Malformed ingredient data received from endpoint"})
            ELSE LET w == WriteCache(cache, resp.body, io)
                 IN  Fetched("json", resp.body.doc, w.cache, w.out)

\* lines 92-98: the three assertions, each on what it reads
ShapeAccepted(doc) ==
    /\ doc.has_base_options
    /\ Len(doc.base_options) >= 1
    /\ doc.base_options[1].has_category
    /\ IsStr(doc.base_options[1].category)
    /\ doc.base_options[1].has_options
    /\ doc.has_toppings

\* lines 101-103: all_base_options.clear(), then one assignment per entry; a
\* missing "category" or "options" raises KeyError out of the loop
RECURSIVE LoadBaseOptions(_, _, _)
LoadBaseOptions(entries, i, acc) ==
    IF i > Len(entries) THEN [raised |-> FALSE, base |-> acc]
    ELSE IF ~entries[i].has_options \/ ~entries[i].has_category
    THEN [raised |-> TRUE, base |-> acc]
    ELSE LoadBaseOptions(entries, i + 1,
            [c \in DOMAIN acc \cup {entries[i].category} |->
                IF c = entries[i].category THEN entries[i].options ELSE acc[c]])

Loaded(rs, rt, c, b, t, o) ==
    [raised |-> rs, ret |-> rt, cache |-> c, base |-> b, toppings |-> t, out |-> o]

\* lines 41-109
download_ingredients(resp, cache, io, base, toppings) ==
    LET f == FetchIngredients(resp, cache, io)
    IN  CASE f.status = "raise" -> Loaded(TRUE, FALSE, f.cache, base, toppings, f.out)
          [] f.status = "fail"  -> Loaded(FALSE, FALSE, f.cache, base, toppings, f.out)
          [] OTHER ->
                IF ~ShapeAccepted(f.doc)
                THEN Loaded(FALSE, FALSE, f.cache, base, toppings,
                            f.out \cup {"Ingredient data is improperly formed"})
                ELSE LET l == LoadBaseOptions(f.doc.base_options, 1, EmptyDict)
                     IN  IF l.raised
                         THEN Loaded(TRUE, FALSE, f.cache, l.base, toppings, f.out)
                         ELSE Loaded(FALSE, TRUE, f.cache, l.base, f.doc.toppings, f.out)

\* which I/O failures a call of download_ingredients can meet
DownloadFaults(resp, cache) ==
    CASE resp.kind = "ok" /\ resp.body.json -> {"open", "write"}
      [] resp.kind = "http_error" -> {"exists"} \cup (IF cache.exists THEN {"read"} ELSE {})
      [] OTHER -> {}

(***************************************************************************)
(* The cart file and the cart.  A pizza is                                 *)
(*   [base_options: category -> option or None, toppings: list, recipient] *)
(* and the cart file holds json.dumps(cart), or text that is no JSON (a    *)
(* write that failed after open(path, "w") leaves the file truncated).     *)
(***************************************************************************)
Pizza(b, t, r) == [base_options |-> b, toppings |-> t, recipient |-> r]

\* json.dumps of one pizza: dict keys become strings, None becomes null
DumpsPizza(p) ==
    Pizza([k \in {JsonKey(c) : c \in DOMAIN p.base_options} |->
                p.base_options[CHOOSE c \in DOMAIN p.base_options : JsonKey(c) = k]],
          p.toppings, p.recipient)

\* json.dumps(cart), as the value the text denotes
Dumps(c) == [i \in 1..Len(c) |-> DumpsPizza(c[i])]

CartFile(e, j, d) == [exists |-> e, json |-> j, data |-> d]
NoCartFile == CartFile(FALSE, FALSE, <<>>)
TruncatedCartFile == CartFile(TRUE, FALSE, <<>>)

\* the variant of save_cart that never writes
save_cart_skipped(file, c, io) == [file |-> file, out |-> {}]

\* lines 245-258: a failure is printed, nothing is returned
save_cart(file, c, io) ==
    CASE io = "open"  -> [file |-> file, out |-> {"Failed to save cart"}]
      [] io = "write" -> [file |-> TruncatedCartFile, out |-> {"Failed to save cart"}]
      [] OTHER        -> [file |-> CartFile(TRUE, TRUE, Dumps(c)), out |-> {}]

\* lines 260-289: an OSError of exists() or read() is printed and the empty
\* string is parsed, which json.loads rejects
CartLoaded(rs, rt, c, o) == [raised |-> rs, ret |-> rt, cart |-> c, out |-> o]

\* the variant of load_cart that lacks the handler of json.JSONDecodeError
load_cart_unhandled(file, c, io) ==
    IF io \in {"exists", "read"} \/ (file.exists /\ ~file.json)
    THEN CartLoaded(TRUE, FALSE, c, {})
    ELSE IF ~file.exists
    THEN CartLoaded(FALSE, FALSE, c, {})
    ELSE CartLoaded(FALSE, TRUE, file.data, {})

\* the variant of load_cart that lacks cart.clear() (line 285)
load_cart_appending(file, c, io) ==
    IF io \in {"exists", "read"}
    THEN CartLoaded(FALSE, FALSE, c, {"Failed to read cart", "Malformed cart data"})
    ELSE IF ~file.exists
    THEN CartLoaded(FALSE, FALSE, c, {})
    ELSE IF ~file.json
    THEN CartLoaded(FALSE, FALSE, c, {"Malformed cart data"})
    ELSE CartLoaded(FALSE, TRUE, c \o file.data, {})

load_cart(file, c, io) ==
    IF io \in {"exists", "read"}
    THEN CartLoaded(FALSE, FALSE, c, {"Failed to read cart", "Malformed cart data"})
    ELSE IF ~file.exists
    THEN CartLoaded(FALSE, FALSE, c, {})
    ELSE IF ~file.json
    THEN CartLoaded(FALSE, FALSE, c, {"Malformed cart data"})
    ELSE CartLoaded(FALSE, TRUE, file.data, {})

\* the variant of clear_cart that empties the list before it deletes the file
clear_cart_list_first(file, c, io) ==
    IF io = "exists" \/ (io = "unlink" /\ file.exists)
    THEN [ret |-> FALSE, file |-> file, cart |-> <<>>, out |-> {"Failed to clear cart"}]
    ELSE [ret |-> TRUE, file |-> NoCartFile, cart |-> <<>>, out |-> {}]

\* lines 291-304
clear_cart(file, c, io) ==
    IF io = "exists" \/ (io = "unlink" /\ file.exists)
    THEN [ret |-> FALSE, file |-> file, cart |-> c, out |-> {"Failed to clear cart"}]
    ELSE [ret |-> TRUE, file |-> NoCartFile, cart |-> <<>>, out |-> {}]

(***************************************************************************)
(* Order files.  The file name is <order_id>.json (suffix NoSuffix) or     *)
(* <order_id>_<suffix>.json; order_id is the clock second it was made in.  *)
(***************************************************************************)
NoSuffix == -1
Stamps == 1..MaxStamp
Suffixes == NoSuffix..MaxProbes
OrderPaths == Stamps \X Suffixes

OrderFile(e, j, id, d, i) == [exists |-> e, json |-> j, id |-> id, date |-> d, items |-> i]
NoOrderFile == OrderFile(FALSE, FALSE, 0, 0, <<>>)
TruncatedOrderFile == OrderFile(TRUE, FALSE, 0, 0, <<>>)

VARIABLES
    pc,                  \* where the program is: the prompt it waits at, or how it ended
    runs,                \* how many times the program was started
    faults,              \* how many I/O operations have failed so far
    cache_file,          \* INGREDIENTS_CACHE_FILE
    cart_file,           \* CART_FILE
    orders,              \* the files of ORDERS_DIRECTORY, by path
    all_base_options,    \* global: category -> option -> price
    all_toppings,        \* global: topping -> price
    cart,                \* global: the list of pizzas
    out,                 \* what the last step printed, of the messages the claims read
    download_succeeded,  \* main's local
    caller,              \* who called edit_pizza: "new" or "edit" ("" outside)
    choice,              \* command_edit's choice: the cart index (1-based; 0 outside)
    pizza,               \* command_new's pizza, not yet in the cart
    today,               \* create_order's today, as a clock second (0 outside)
    order_filepath,      \* create_order's candidate path
    attempts,            \* create_order's attempts
    probes               \* how many times the search loop's body has run

vars == <<pc, runs, faults, cache_file, cart_file, orders, all_base_options, all_toppings,
          cart, out, download_succeeded, caller, choice, pizza, today, order_filepath,
          attempts, probes>>

files == <<cache_file, cart_file, orders>>
menu == <<all_base_options, all_toppings>>
editor == <<caller, choice, pizza>>
order_locals == <<today, order_filepath, attempts, probes>>

NoPizza == Pizza(EmptyDict, <<>>, "")
NoPath == <<0, NoSuffix>>

\* an I/O failure may be met while fewer than MaxFaults have happened
Io(sites) == {"ok"} \cup (IF faults < MaxFaults THEN sites ELSE {})
Charge(io) == faults' = faults + (IF io = "ok" THEN 0 ELSE 1)

(***************************************************************************)
(* calculate_pizza_price, lines 440-453.  It raises KeyError when the      *)
(* pizza lacks a category of the menu or names an option or a topping the  *)
(* menu does not have.                                                     *)
(***************************************************************************)
RECURSIVE SumOf(_, _)
SumOf(f, S) ==
    IF S = {} THEN 0
    ELSE LET k == CHOOSE x \in S : TRUE IN f[k] + SumOf(f, S \ {k})

PriceRaises(p) ==
    \/ \E c \in DOMAIN all_base_options :
          \/ c \notin DOMAIN p.base_options
          \/ /\ Truthy(p.base_options[c])
             /\ p.base_options[c] \notin DOMAIN all_base_options[c]
    \/ \E i \in 1..Len(p.toppings) : p.toppings[i] \notin DOMAIN all_toppings

\* the variant of the price that leaves the toppings out
calculate_pizza_price_untopped(p) ==
    SumOf([c \in DOMAIN all_base_options |->
              IF Truthy(p.base_options[c]) THEN all_base_options[c][p.base_options[c]] ELSE 0],
          DOMAIN all_base_options)

calculate_pizza_price(p) ==
    SumOf([c \in DOMAIN all_base_options |->
              IF Truthy(p.base_options[c]) THEN all_base_options[c][p.base_options[c]] ELSE 0],
          DOMAIN all_base_options)
    + SumOf([i \in 1..Len(p.toppings) |-> all_toppings[p.toppings[i]]], 1..Len(p.toppings))

\* the variant of the loop that ends once the cart is empty
LoopHeadUntilEmpty(c) ==
    IF \E i \in 1..Len(c) : PriceRaises(c[i]) THEN "crashed"
    ELSE IF c = <<>> THEN "returned" ELSE "menu"

\* lines 123-136: the head of the command loop sums the prices of the cart
\* and prompts; a KeyError of calculate_pizza_price ends the program
LoopHead(c) == IF \E i \in 1..Len(c) : PriceRaises(c[i]) THEN "crashed" ELSE "menu"

(***************************************************************************)
(* The program starts.                                                     *)
(***************************************************************************)
Init ==
    /\ pc = "start"
    /\ runs = 1
    /\ faults = 0
    /\ cache_file = NoFile
    /\ cart_file = NoCartFile
    /\ orders = [p \in OrderPaths |-> NoOrderFile]
    /\ all_base_options = EmptyDict
    /\ all_toppings = EmptyDict
    /\ cart = <<>>
    /\ out = {}
    /\ download_succeeded = FALSE
    /\ caller = ""
    /\ choice = 0
    /\ pizza = NoPizza
    /\ today = 0
    /\ order_filepath = NoPath
    /\ attempts = 0
    /\ probes = 0

Ended == pc \in {"returned", "exited", "crashed"}

\* the program is run again: the module's globals are fresh, the files stay
Launch ==
    /\ Ended
    /\ runs < MaxRuns
    /\ pc' = "start"
    /\ runs' = runs + 1
    /\ all_base_options' = EmptyDict
    /\ all_toppings' = EmptyDict
    /\ cart' = <<>>
    /\ out' = {}
    /\ download_succeeded' = FALSE
    /\ caller' = ""
    /\ choice' = 0
    /\ pizza' = NoPizza
    /\ today' = 0
    /\ order_filepath' = NoPath
    /\ attempts' = 0
    /\ probes' = 0
    /\ UNCHANGED <<faults, files>>

\* the variant of main that goes on whatever download_ingredients returned
MainAfterDownloadUnchecked(r) == IF r.raised THEN "crashed" ELSE "load_cart"

\* lines 113-116: main returns when the download did not succeed
MainAfterDownload(r) == IF r.raised THEN "crashed" ELSE IF r.ret THEN "load_cart" ELSE "returned"

\* main, lines 112-116
MainDownload(bodies) ==
    /\ pc = "start"
    /\ \E resp \in Responses(bodies) :
         \E io \in Io(DownloadFaults(resp, cache_file)) :
            LET r == download_ingredients(resp, cache_file, io, all_base_options, all_toppings)
            IN  /\ Charge(io)
                /\ cache_file' = r.cache
                /\ all_base_options' = r.base
                /\ all_toppings' = r.toppings
                /\ download_succeeded' = r.ret
                /\ out' = r.out \cup (IF ~r.raised /\ ~r.ret THEN {"Menu download failed!"} ELSE {})
                /\ pc' = MainAfterDownload(r)
    /\ UNCHANGED <<runs, cart_file, orders, cart, editor, order_locals>>

\* main, lines 118-136: load the cart and reach the first prompt
MainLoadCart ==
    /\ pc = "load_cart"
    /\ \E io \in Io({"exists"} \cup (IF cart_file.exists THEN {"read"} ELSE {})) :
            LET r == load_cart(cart_file, cart, io)
            IN  /\ Charge(io)
                /\ cart' = r.cart
                /\ out' = r.out \cup (IF r.ret THEN {}
                            ELSE {"A new cart file will be created when the order is modified"})
                /\ pc' = IF r.raised THEN "crashed" ELSE LoopHead(r.cart)
    /\ UNCHANGED <<runs, files, menu, download_succeeded, editor, order_locals>>

(***************************************************************************)
(* Prompts.  pyinputplus is a library, not part of this repository.  The   *)
(* model leaves open whether inputMenu accepts a list of choices that has  *)
(* two equal entries or fewer than two entries: where the program builds   *)
(* such a list, both outcomes are followed (the prompt is shown, or the    *)
(* call raises and the program ends).                                      *)
(***************************************************************************)
Recipients == {"ann"}

\* str.title() on the recipients of the model
Title(r) == CASE r = "ann" -> "Ann" [] OTHER -> r

\* PRICED_ITEM_FORMAT.format(recipient.title() + "'s pizza", price): the text
\* is decided by the titled name and the price
Label(p) == <<Title(p.recipient), calculate_pizza_price(p)>>

\* lines 180-187 and 204-211: one choice per pizza, then "Back"
CartLabels(c) == [i \in 1..(Len(c) + 1) |-> IF i <= Len(c) THEN Label(c[i]) ELSE <<"Back", -1>>]

MenuRefusable(labels) ==
    \/ Len(labels) < 2
    \/ \E i, j \in 1..Len(labels) : i # j /\ labels[i] = labels[j]

PromptPcs(labels, at) == IF MenuRefusable(labels) THEN {"crashed", at} ELSE {at}

\* lines 467-474: the key of the first choice whose text is the response
input_menu_indexed(labels, response) ==
    CHOOSE i \in 1..Len(labels) :
        /\ labels[i] = labels[response]
        /\ \A j \in 1..(i - 1) : labels[j] # labels[response]

(***************************************************************************)
(* The command loop, lines 123-157.                                        *)
(***************************************************************************)
\* back from a command: save_cart(CART_FILE), then the head of the loop
SaveAndLoop(c, msgs) ==
    \E io \in Io({"open", "write"}) :
        LET s == save_cart(cart_file, c, io)
        IN  /\ Charge(io)
            /\ cart' = c
            /\ cart_file' = s.file
            /\ out' = msgs \cup s.out
            /\ pc' = LoopHead(c)
            /\ caller' = ""
            /\ choice' = 0
            /\ pizza' = NoPizza

\* lines 159-168
NewPizza == Pizza([c \in DOMAIN all_base_options |-> None], <<>>, "")

\* "new": command_new up to edit_pizza's first prompt
ChooseNew ==
    /\ pc = "menu"
    /\ Len(cart) < MaxCart
    /\ pizza' = NewPizza
    /\ caller' = "new"
    /\ pc' = "edit_pizza"
    /\ out' = {}
    /\ UNCHANGED <<runs, faults, files, menu, cart, download_succeeded, choice, order_locals>>

\* "edit": command_edit up to its prompt, or (empty cart) back to the loop
ChooseEdit ==
    /\ pc = "menu"
    /\ IF cart = <<>>
       THEN SaveAndLoop(cart, {})
       ELSE /\ pc' \in PromptPcs(CartLabels(cart), "command_edit")
            /\ out' = {}
            /\ UNCHANGED <<faults, cart, cart_file, editor>>
    /\ UNCHANGED <<runs, cache_file, orders, menu, download_succeeded, order_locals>>

\* "remove": command_remove up to its prompt, or (empty cart) back to the loop
ChooseRemove ==
    /\ pc = "menu"
    /\ IF cart = <<>>
       THEN SaveAndLoop(cart, {})
       ELSE /\ pc' \in PromptPcs(CartLabels(cart), "command_remove")
            /\ out' = {}
            /\ UNCHANGED <<faults, cart, cart_file, editor>>
    /\ UNCHANGED <<runs, cache_file, orders, menu, download_succeeded, order_locals>>

\* "restart", lines 147-150
ChooseRestart ==
    /\ pc = "menu"
    /\ \E answer \in {"yes", "no"} :
         IF answer = "no"
         THEN /\ out' = {}
              /\ UNCHANGED <<faults, cart, cart_file, pc>>
         ELSE \E io \in Io({"exists", "unlink"}) :
                LET r == clear_cart(cart_file, cart, io)
                IN  /\ Charge(io)
                    /\ cart' = r.cart
                    /\ cart_file' = r.file
                    /\ out' = r.out \cup (IF r.ret THEN {"Cleared the cart successfully"} ELSE {})
                    /\ pc' = LoopHead(r.cart)
    /\ UNCHANGED <<runs, cache_file, orders, menu, download_succeeded, editor, order_locals>>

(***************************************************************************)
(* command_edit, lines 174-197, and command_remove, lines 199-221.         *)
(***************************************************************************)
EditBack ==
    /\ pc = "command_edit"
    /\ SaveAndLoop(cart, {})
    /\ UNCHANGED <<runs, cache_file, orders, menu, download_succeeded, order_locals>>

EditPick ==
    /\ pc = "command_edit"
    /\ \E response \in 1..Len(cart) :
         /\ choice' = input_menu_indexed(CartLabels(cart), response)
         /\ caller' = "edit"
         /\ pc' = "edit_pizza"
         /\ out' = {}
    /\ UNCHANGED <<runs, faults, files, menu, cart, download_succeeded, pizza, order_locals>>

RemoveBack ==
    /\ pc = "command_remove"
    /\ SaveAndLoop(cart, {})
    /\ UNCHANGED <<runs, cache_file, orders, menu, download_succeeded, order_locals>>

\* cart.pop(choice)
Pop(c, k) == [i \in 1..(Len(c) - 1) |-> IF i < k THEN c[i] ELSE c[i + 1]]

RemovePick ==
    /\ pc = "command_remove"
    /\ \E response \in 1..Len(cart), answer \in {"yes", "no"} :
         LET k == input_menu_indexed(CartLabels(cart), response)
             c == IF answer = "yes" THEN Pop(cart, k) ELSE cart
         IN  /\ cart' = c
             /\ pc' \in PromptPcs(CartLabels(c), "command_remove")
             /\ out' = {}
    /\ UNCHANGED <<runs, faults, files, menu, download_succeeded, editor, order_locals>>

(***************************************************************************)
(* edit_pizza, lines 345-401, with choose_toppings and choose_base_option. *)
(* The pizza edited is command_new's fresh dict or, from command_edit, the *)
(* very dict that is in the cart (cart[choice]): edits are made in place.  *)
(***************************************************************************)
Edited == IF caller = "new" THEN pizza ELSE cart[choice]

SetEdited(p) ==
    IF caller = "new"
    THEN pizza' = p /\ cart' = cart
    ELSE cart' = [cart EXCEPT ![choice] = p] /\ pizza' = pizza

\* the variant of the check that is content with one category selected
all_required_picked_any(p) == \E c \in DOMAIN all_base_options : Truthy(p.base_options[c])

\* lines 348-360
all_required_picked(p) == \A c \in DOMAIN all_base_options : Truthy(p.base_options[c])

\* lines 426-437: a blank response (None) keeps the selection
choose_base_option(category, p, response) ==
    [p EXCEPT !.base_options[category] =
        IF response # None THEN response ELSE p.base_options[category]]

\* lines 420-424: list.remove takes out the first occurrence
RemoveFirst(list, x) ==
    LET k == CHOOSE i \in 1..Len(list) : list[i] = x /\ \A j \in 1..(i - 1) : list[j] # x
    IN  [i \in 1..(Len(list) - 1) |-> IF i < k THEN list[i] ELSE list[i + 1]]

\* the variant of the toggle that appends without looking
ToggleAppending(list, x) == Append(list, x)

Toggle(list, x) ==
    IF \E i \in 1..Len(list) : list[i] = x THEN RemoveFirst(list, x) ELSE Append(list, x)

\* a category is picked and, at the next prompt, one of its options or blank
PickCategory ==
    /\ pc = "edit_pizza"
    /\ \E category \in DOMAIN all_base_options :
         \E response \in DOMAIN all_base_options[category] \cup {None} :
            SetEdited(choose_base_option(category, Edited, response))
    /\ out' = {}
    /\ UNCHANGED <<pc, runs, faults, files, menu, download_succeeded, caller, choice, order_locals>>

PickToppings ==
    /\ pc = "edit_pizza"
    /\ pc' = "choose_toppings"
    /\ out' = {}
    /\ UNCHANGED <<runs, faults, files, menu, cart, download_succeeded, editor, order_locals>>

ToggleTopping ==
    /\ pc = "choose_toppings"
    /\ \E topping \in DOMAIN all_toppings :
         SetEdited([Edited EXCEPT !.toppings = Toggle(Edited.toppings, topping)])
    /\ out' = {}
    /\ UNCHANGED <<pc, runs, faults, files, menu, download_succeeded, caller, choice, order_locals>>

SaveToppings ==
    /\ pc = "choose_toppings"
    /\ pc' = "edit_pizza"
    /\ out' = {}
    /\ UNCHANGED <<runs, faults, files, menu, cart, download_succeeded, editor, order_locals>>

\* the variant of the recipient prompt that takes a blank answer as the name
name_recipient_as_typed(p, response) == [p EXCEPT !.recipient = response]

\* lines 395-399: the recipient prompt; blank is accepted only when the
\* pizza has a recipient already, and keeps it
name_recipient(p, response) ==
    [p EXCEPT !.recipient = IF response # "" THEN response ELSE p.recipient]

RecipientResponses(p) == Recipients \cup (IF p.recipient # "" THEN {""} ELSE {})

\* edit_pizza has returned to command_edit: the head of its loop
BackToCommandEdit(c) ==
    /\ cart' = c
    /\ pc' \in PromptPcs(CartLabels(c), "command_edit")
    /\ caller' = ""
    /\ choice' = 0
    /\ pizza' = pizza
    /\ UNCHANGED <<faults, cart_file>>

\* "$exit": refused while a category is unselected; else the recipient is
\* asked, edit_pizza returns True and the caller goes on
PickFinish ==
    /\ pc = "edit_pizza"
    /\ IF ~all_required_picked(Edited)
       THEN /\ out' = {"Ingredients marked with an asterisk (*) are required, but not set."}
            /\ UNCHANGED <<pc, faults, cart, cart_file, editor>>
       ELSE \E response \in RecipientResponses(Edited) :
               LET p == name_recipient(Edited, response)
               IN  IF caller = "new"
                   THEN SaveAndLoop(Append(cart, p), {})
                   ELSE /\ BackToCommandEdit([cart EXCEPT ![choice] = p])
                        /\ out' = {}
    /\ UNCHANGED <<runs, cache_file, orders, menu, download_succeeded, order_locals>>

\* "$cancel": after a yes edit_pizza returns False
PickCancel ==
    /\ pc = "edit_pizza"
    /\ \E answer \in {"yes", "no"} :
         IF answer = "no"
         THEN /\ out' = {}
              /\ UNCHANGED <<pc, faults, cart, cart_file, editor>>
         ELSE IF caller = "new"
              THEN SaveAndLoop(cart, {})
              ELSE /\ BackToCommandEdit(cart)
                   /\ out' = {}
    /\ UNCHANGED <<runs, cache_file, orders, menu, download_succeeded, order_locals>>

(***************************************************************************)
(* Checkout: command_checkout, lines 223-242, then create_order, lines     *)
(* 306-342, and the end of main, lines 155-157.                            *)
(***************************************************************************)
\* print_pizza_receipt, lines 455-465: None has no title(), and a name the
\* menu lacks raises KeyError
ReceiptRaises(p) ==
    \/ \E c \in DOMAIN p.base_options :
          \/ p.base_options[c] = None
          \/ c \notin DOMAIN all_base_options
          \/ p.base_options[c] \notin DOMAIN all_base_options[c]
    \/ PriceRaises(p)

\* "checkout": the receipts, then create_order up to its search loop
ChooseCheckout ==
    /\ pc = "menu"
    /\ IF cart = <<>>
       THEN /\ out' = {}
            /\ UNCHANGED <<pc, order_locals>>
       ELSE IF \E i \in 1..Len(cart) : ReceiptRaises(cart[i])
       THEN /\ pc' = "crashed"
            /\ out' = {}
            /\ UNCHANGED order_locals
       ELSE \E t \in Stamps :
               /\ today' = t
               /\ order_filepath' = <<t, NoSuffix>>
               /\ attempts' = 0
               /\ probes' = 0
               /\ pc' = "create_order"
               /\ out' = {}
    /\ UNCHANGED <<runs, faults, files, menu, cart, download_succeeded, editor>>

\* the variant of the search that never finds a candidate taken
PathNeverExists(path) == FALSE

\* line 315: Path.exists(order_filepath)
PathExists(path) == orders[path].exists

LeaveCreateOrder ==
    /\ today' = 0
    /\ order_filepath' = NoPath
    /\ attempts' = 0
    /\ probes' = 0

\* lines 315-316: the candidate exists, the loop body names the next one
OrderProbe ==
    /\ pc = "create_order"
    /\ probes < MaxProbes
    /\ PathExists(order_filepath)
    /\ order_filepath' = <<today, attempts>>
    /\ probes' = probes + 1
    /\ out' = {}
    /\ UNCHANGED <<pc, runs, faults, files, menu, cart, download_succeeded, editor, today, attempts>>

\* the variant of main that does not look at what create_order returned
OrderProbeFailsUnchecked ==
    /\ pc = "create_order"
    /\ faults < MaxFaults
    /\ faults' = faults + 1
    /\ out' = {"Failed to create order while looking for suitable file location"}
    /\ pc' = "exited"
    /\ cart' = <<>>
    /\ cart_file' = NoCartFile
    /\ LeaveCreateOrder
    /\ UNCHANGED <<runs, cache_file, orders, menu, download_succeeded, editor>>

\* lines 317-320: Path.exists raises, create_order returns False
OrderProbeFails ==
    /\ pc = "create_order"
    /\ faults < MaxFaults
    /\ faults' = faults + 1
    /\ out' = {"Failed to create order while looking for suitable file location"}
    /\ pc' = LoopHead(cart)
    /\ LeaveCreateOrder
    /\ UNCHANGED <<runs, files, menu, cart, download_succeeded, editor>>

\* the variant of the order document made after the cart was emptied
OrderDocumentOfNothing == OrderFile(TRUE, TRUE, today, today, <<>>)

\* the order document, lines 323-327
OrderDocument == OrderFile(TRUE, TRUE, today, today, Dumps(cart))

\* lines 322-342 and 155-157: the candidate is free; write it and, written,
\* clear the cart and leave main.  At most one I/O operation of the step fails.
OrderWrite ==
    /\ pc = "create_order"
    /\ ~PathExists(order_filepath)
    /\ \E io \in Io({"open", "write", "exists", "unlink"}) :
         /\ Charge(io)
         /\ CASE io = "open" ->
                    /\ out' = {"Failed to create order file"}
                    /\ pc' = LoopHead(cart)
                    /\ UNCHANGED <<orders, cart, cart_file>>
              [] io = "write" ->
                    /\ orders' = [orders EXCEPT ![order_filepath] = TruncatedOrderFile]
                    /\ out' = {"Failed to create order file"}
                    /\ pc' = LoopHead(cart)
                    /\ UNCHANGED <<cart, cart_file>>
              [] OTHER ->
                    LET r == clear_cart(cart_file, cart, io)
                    IN  /\ orders' = [orders EXCEPT ![order_filepath] = OrderDocument]
                        /\ cart' = r.cart
                        /\ cart_file' = r.file
                        /\ out' = r.out
                        /\ pc' = "exited"
    /\ LeaveCreateOrder
    /\ UNCHANGED <<runs, cache_file, menu, download_succeeded, editor>>

(***************************************************************************)
(* The specifications.  Spec is the whole program with the endpoint        *)
(* answering one of MainBodies; SpecLoad follows the start of main only,   *)
(* for every document of Docs at the endpoint and in the cache file.       *)
(***************************************************************************)
Next ==
    \/ Launch
    \/ MainDownload(MainBodies)
    \/ MainLoadCart
    \/ ChooseNew
    \/ ChooseEdit
    \/ ChooseRemove
    \/ ChooseRestart
    \/ ChooseCheckout
    \/ EditBack
    \/ EditPick
    \/ RemoveBack
    \/ RemovePick
    \/ PickCategory
    \/ PickToppings
    \/ ToggleTopping
    \/ SaveToppings
    \/ PickFinish
    \/ PickCancel
    \/ OrderProbe
    \/ OrderProbeFails
    \/ OrderWrite

Spec == Init /\ [][Next]_vars

\* a cart file that a run under GoodDoc has saved
SavedCartFile ==
    CartFile(TRUE, TRUE, <<Pizza([size |-> "small", crust |-> "thin"], <<"cheese">>, "ann")>>)

InitLoad ==
    /\ Init!1 /\ Init!2 /\ Init!3
    /\ cache_file \in CacheFiles
    /\ cart_file \in {NoCartFile, TruncatedCartFile, SavedCartFile}
    /\ Init!6 /\ Init!7 /\ Init!8 /\ Init!9 /\ Init!10 /\ Init!11 /\ Init!12
    /\ Init!13 /\ Init!14 /\ Init!15 /\ Init!16 /\ Init!17 /\ Init!18

NextLoad ==
    \/ MainDownload(AllBodies)
    \/ MainLoadCart

SpecLoad == InitLoad /\ [][NextLoad]_vars

(***************************************************************************)
(* SpecCart: save_cart(CART_FILE) followed by load_cart(CART_FILE), for    *)
(* every cart of at most MaxCart pizzas over the menu of GoodDoc: each     *)
(* category selected or None, the toppings chosen or not, the recipient    *)
(* named or not yet.                                                       *)
(***************************************************************************)
GoodBaseOptions == [size |-> SizeOptions, crust |-> CrustOptions]

WellFormedPizzas ==
    {Pizza(b, t, r) :
        b \in {f \in [DOMAIN GoodBaseOptions -> {None, "small", "large", "thin"}] :
                    \A c \in DOMAIN f : f[c] = None \/ f[c] \in DOMAIN GoodBaseOptions[c]},
        t \in {<<>>, <<"cheese">>},
        r \in {""} \cup Recipients}

WellFormedCarts ==
    UNION {[1..n -> WellFormedPizzas] : n \in 0..MaxCart}

InitCart ==
    /\ pc = "round_trip_save"
    /\ Init!2 /\ Init!3 /\ Init!4
    /\ cart_file \in {NoCartFile, TruncatedCartFile, SavedCartFile}
    /\ Init!6
    /\ all_base_options = GoodBaseOptions
    /\ all_toppings = CheeseToppings
    /\ cart \in WellFormedCarts
    /\ Init!10
    /\ download_succeeded = TRUE
    /\ Init!12 /\ Init!13 /\ Init!14 /\ Init!15 /\ Init!16 /\ Init!17 /\ Init!18

\* save_cart(CART_FILE)
RoundTripSave ==
    /\ pc = "round_trip_save"
    /\ \E io \in Io({"open", "write"}) :
         LET s == save_cart(cart_file, cart, io)
         IN  /\ Charge(io)
             /\ cart_file' = s.file
             /\ out' = s.out
    /\ pc' = "round_trip_load"
    /\ UNCHANGED <<runs, cache_file, orders, menu, cart, download_succeeded, editor, order_locals>>

\* load_cart(CART_FILE)
RoundTripLoad ==
    /\ pc = "round_trip_load"
    /\ \E io \in Io({"exists"} \cup (IF cart_file.exists THEN {"read"} ELSE {})) :
         LET r == load_cart(cart_file, cart, io)
         IN  /\ Charge(io)
             /\ cart' = r.cart
             /\ out' = r.out
             /\ pc' = IF r.raised THEN "crashed" ELSE "round_trip_done"
    /\ UNCHANGED <<runs, files, menu, download_succeeded, editor, order_locals>>

NextCart ==
    \/ RoundTripSave
    \/ RoundTripLoad

SpecCart == InitCart /\ [][NextCart]_vars

(***************************************************************************)
(* SpecEditor: the command loop of one run (new, edit, remove, with the    *)
(* pizza editor) after the endpoint has answered a menu of two categories  *)
(* and two toppings and no cart file was found.  With these prices two     *)
(* different pizzas can cost the same: small, thin, cheese and ham is      *)
(* 14.00, as is large and thin.                                            *)
(***************************************************************************)
TwoToppings == [cheese |-> 150, ham |-> 250]

TwoToppingsDoc == Doc(TRUE, <<SizeEntry, CrustEntry>>, TRUE, TwoToppings)

InitEditor ==
    /\ pc = "menu"
    /\ Init!2 /\ Init!3
    /\ cache_file = File(TRUE, Body(TRUE, TwoToppingsDoc))
    /\ Init!5 /\ Init!6
    /\ all_base_options = GoodBaseOptions
    /\ all_toppings = TwoToppings
    /\ Init!9
    /\ out = {"A new cart file will be created when the order is modified"}
    /\ download_succeeded = TRUE
    /\ Init!12 /\ Init!13 /\ Init!14 /\ Init!15 /\ Init!16 /\ Init!17 /\ Init!18

NextEditor ==
    \/ ChooseNew
    \/ ChooseEdit
    \/ ChooseRemove
    \/ EditBack
    \/ EditPick
    \/ RemoveBack
    \/ RemovePick
    \/ PickCategory
    \/ PickToppings
    \/ ToggleTopping
    \/ SaveToppings
    \/ PickFinish
    \/ PickCancel

SpecEditor == InitEditor /\ [][NextEditor]_vars

(***************************************************************************)
(* The claims.                                                             *)
(***************************************************************************)

\* C1: create_order's search tries the suffixes 0, 1, 2, ... in sequence: after
\* the k-th run of the loop body the candidate is <id>_<k-1>.json, so that with
\* <id>.json and <id>_0.json taken the search moves on to <id>_1.json.
C1_SearchTriesSuffixesInSequence ==
    (pc = "create_order" /\ probes >= 1) => order_filepath = <<today, probes - 1>>

\* C2: create_order never writes a path that existed when it was chosen: a step
\* that changes the orders directory creates the file at the candidate path,
\* which did not exist, and leaves every other order file as it was; when the
\* base name <id>.json is taken, the file created carries a numeric suffix.
C2_NeverOverwritesAnOrder ==
    [][orders' # orders =>
        /\ ~orders[order_filepath].exists
        /\ orders'[order_filepath].exists
        /\ \A p \in OrderPaths : p # order_filepath => orders'[p] = orders[p]
        /\ orders[<<today, NoSuffix>>].exists => order_filepath[2] >= 0]_vars

\* two checkouts of the same second have succeeded, each in a file of its own
C2_Witness ==
    \E t \in Stamps :
        /\ orders[<<t, NoSuffix>>].json
        /\ orders[<<t, 0>>].json
        /\ pc = "exited"

\* the step in which create_order prints a failure and returns False
CreateOrderFails ==
    /\ pc = "create_order"
    /\ out' \cap {"Failed to create order while looking for suitable file location",
                  "Failed to create order file"} # {}

\* C3: whenever create_order fails, the cart and the cart file are as they were
\* when checkout was chosen (no step from the choice to the failure changes them),
\* the program does not exit and the top-level menu is shown again; create_order
\* is left only by such a failure or with the order written.
C3_FailedOrderKeepsCart ==
    [][/\ pc' = "create_order" => (cart' = cart /\ cart_file' = cart_file)
       /\ CreateOrderFails => (pc' = "menu" /\ cart' = cart /\ cart_file' = cart_file)
       /\ pc = "create_order" =>
            \/ pc' = "create_order"
            \/ CreateOrderFails
            \/ pc' = "exited" /\ orders'[order_filepath].json]_vars

\* the order write has failed and the menu is shown with the cart kept
C3_Witness ==
    /\ pc = "menu"
    /\ "Failed to create order file" \in out
    /\ cart # <<>>
    /\ cart_file = CartFile(TRUE, TRUE, Dumps(cart))

(***************************************************************************)
(* What the specification (section 4.1) requires of a menu document.       *)
(***************************************************************************)
RequiredShape(doc) ==
    /\ doc.has_base_options
    /\ Len(doc.base_options) >= 1
    /\ \A i \in 1..Len(doc.base_options) :
          /\ doc.base_options[i].has_category
          /\ IsStr(doc.base_options[i].category)
          /\ doc.base_options[i].has_options
          /\ DOMAIN doc.base_options[i].options # {}
    /\ doc.has_toppings
    /\ DOMAIN doc.toppings # {}

NetworkFailures == {Response("transport", GarbageBody), Response("http_error", GarbageBody)}

\* after one of these failures of the request, download_ingredients returns
\* True with the cached menu loaded when the cache holds valid menu JSON, and
\* returns False when the cache file is absent or unreadable
FallsBackAfter(failures) ==
    pc = "start" =>
        \A resp \in failures :
            LET r == download_ingredients(resp, cache_file, "ok", all_base_options, all_toppings)
                doc == cache_file.body.doc
            IN  /\ (cache_file.exists /\ cache_file.body.json /\ RequiredShape(doc)) =>
                     /\ ~r.raised
                     /\ r.ret
                     /\ r.toppings = doc.toppings
                     /\ DOMAIN r.base =
                            {doc.base_options[i].category : i \in 1..Len(doc.base_options)}
                /\ (~cache_file.exists \/ ~cache_file.body.json) => (~r.raised /\ ~r.ret)

\* C4: for a transport failure as for a non-2xx status, download_ingredients
\* falls back to the cache file: it returns True with the cached menu loaded when
\* the cache holds valid menu JSON, and returns False when the cache file is
\* absent or unreadable.
C4_BothNetworkFailuresFallBack == FallsBackAfter(NetworkFailures)

\* C5: download_ingredients returns False and leaves the menu store untouched
\* whenever the JSON it obtained, from the network or from the cache, violates
\* the required shape.
C5_MalformedShapeIsRefused ==
    pc = "start" =>
        \A resp \in Responses(AllBodies) :
            LET f == FetchIngredients(resp, cache_file, "ok")
                r == download_ingredients(resp, cache_file, "ok", all_base_options, all_toppings)
            IN  (f.status = "json" /\ ~RequiredShape(f.doc)) =>
                    /\ ~r.raised
                    /\ ~r.ret
                    /\ r.base = all_base_options
                    /\ r.toppings = all_toppings

\* C6: whenever download_ingredients does not succeed (it returns False or
\* raises), main ends without reaching the command loop and that run neither
\* changes the cart file or the orders nor fills the cart; the loading of the
\* cart and the command loop are reached only after a successful download.
C6_NoMenuNoProgram ==
    [][/\ (pc = "start" /\ ~download_succeeded') =>
            /\ pc' \in {"returned", "crashed"}
            /\ UNCHANGED <<cart_file, orders, cart>>
       /\ pc' \in {"load_cart", "menu"} => download_succeeded'
       /\ (pc = "returned" /\ pc' # "start") => UNCHANGED <<pc, cart_file, orders, cart>>]_vars

\* the download has failed and main has returned, the cart file untouched
C6_Witness ==
    /\ pc = "returned"
    /\ "Menu download failed!" \in out
    /\ "Ingredient data is improperly formed" \in out
    /\ cart_file = SavedCartFile
    /\ cart = <<>>

\* the step in which create_order has written the order and main returns
CheckoutExits == pc = "create_order" /\ pc' = "exited"

\* C7 as stated: when the program exits through a successful checkout, the
\* order file written holds exactly the cart, the in-memory cart is empty and
\* the cart file no longer exists.
C7_ExitLeavesNoCart ==
    [][CheckoutExits =>
        /\ orders'[order_filepath] = OrderFile(TRUE, TRUE, today, today, Dumps(cart))
        /\ cart' = <<>>
        /\ ~cart_file'.exists]_vars

\* C7, amended: the cart is not changed between the choice of checkout and the
\* write; the order file written on exit holds exactly the cart of that moment;
\* and unless clear_cart failed ("Failed to clear cart" is printed, the cart file
\* and the list stay as they were) the list is empty and the cart file is gone.
\* A run that finds no cart file starts the command loop with an empty cart.
C7_ExitWritesCartAndClearsIt ==
    [][/\ pc' = "create_order" => cart' = cart
       /\ CheckoutExits =>
            /\ orders'[order_filepath] = OrderFile(TRUE, TRUE, today, today, Dumps(cart))
            /\ IF "Failed to clear cart" \in out'
               THEN cart' = cart /\ cart_file' = cart_file
               ELSE cart' = <<>> /\ ~cart_file'.exists
       /\ (pc = "load_cart" /\ ~cart_file.exists) => cart' = <<>>]_vars

\* a checkout of two pizzas has succeeded and cleared the cart
C7_Witness ==
    /\ pc = "exited"
    /\ cart = <<>>
    /\ ~cart_file.exists
    /\ \E p \in OrderPaths : orders[p].json /\ Len(orders[p].items) = 2

\* the step in which new, edit or remove returns to the command loop
MutatingActionReturns ==
    /\ pc' = "menu"
    /\ \/ pc \in {"command_edit", "command_remove"}
       \/ pc = "edit_pizza" /\ caller = "new"
       \/ pc = "menu" /\ cart = <<>> /\ (ChooseEdit \/ ChooseRemove)

\* C8 as stated: after every mutating top-level action returns, the cart file
\* holds exactly the in-memory cart.
C8_CartFileIsTheCart ==
    [][MutatingActionReturns => cart_file' = CartFile(TRUE, TRUE, Dumps(cart'))]_vars

\* C8, amended: after every mutating top-level action returns, save_cart has
\* either written the in-memory cart to the cart file or has printed "Failed to
\* save cart", and then the file is as it was before or is left truncated.
C8_CartFileIsTheCartUnlessSaveFailed ==
    [][MutatingActionReturns =>
        IF "Failed to save cart" \in out'
        THEN cart_file' \in {cart_file, TruncatedCartFile}
        ELSE cart_file' = CartFile(TRUE, TRUE, Dumps(cart'))]_vars

\* at the menu with two different pizzas, the cart file holding both
C8_Witness ==
    /\ pc = "menu"
    /\ Len(cart) = 2
    /\ cart[1] # cart[2]
    /\ out = {}
    /\ cart_file = CartFile(TRUE, TRUE, Dumps(cart))

\* what a call of clear_cart leaves: all cleared, or (failure printed) nothing
ClearedOrUntouched ==
    \/ /\ "Failed to clear cart" \notin out'
       /\ cart' = <<>>
       /\ ~cart_file'.exists
    \/ /\ "Failed to clear cart" \in out'
       /\ cart' = cart
       /\ cart_file' = cart_file

\* C9: clear_cart is all-or-nothing: where it is called (a confirmed restart,
\* the exit after a checkout) either the cart file is absent and the list is
\* empty, or it has failed and both are unchanged; a declined restart changes
\* neither.
C9_ClearIsAllOrNothing ==
    [][/\ ChooseRestart =>
            \/ ClearedOrUntouched
            \/ UNCHANGED <<pc, cart, cart_file>> /\ out' = {}
       /\ CheckoutExits => ClearedOrUntouched]_vars

\* a confirmed restart has failed: the pizzas and the cart file are still there
C9_Witness ==
    /\ pc = "menu"
    /\ "Failed to clear cart" \in out
    /\ cart # <<>>
    /\ cart_file = CartFile(TRUE, TRUE, Dumps(cart))

\* C10: when the cart file does not exist or does not parse as JSON, load_cart
\* reports failure without raising, the cart stays as it was and main goes on
\* to the command loop.
C10_BadCartFileIsTolerated ==
    [][(pc = "load_cart" /\ (~cart_file.exists \/ ~cart_file.json)) =>
        /\ cart' = cart
        /\ pc' = "menu"
        /\ "A new cart file will be created when the order is modified" \in out']_vars

\* the cart file was corrupt and the command loop runs on an empty cart
C10_Witness ==
    /\ pc = "menu"
    /\ cart_file = TruncatedCartFile
    /\ "Malformed cart data" \in out
    /\ cart = <<>>

\* C11: save_cart followed by load_cart on the same path leaves the in-memory
\* cart equal to the cart that was saved, for every well-formed cart (the empty
\* cart, unselected categories and unnamed recipients included), whenever
\* neither the save nor the read has failed; the cart file is not changed by the
\* load.
C11_SaveThenLoadIsTheCart ==
    [][(/\ pc = "round_trip_load"
        /\ "Failed to save cart" \notin out
        /\ "Failed to read cart" \notin out') =>
            /\ cart' = cart
            /\ out' = {}
            /\ pc' = "round_trip_done"
            /\ cart_file' = cart_file
            /\ cart_file.data = cart]_vars

\* a cart of two pizzas, one with a category unselected, has made the round trip
C11_Witness ==
    /\ pc = "round_trip_done"
    /\ out = {}
    /\ Len(cart) = 2
    /\ cart[1].base_options["crust"] = None
    /\ cart[2].base_options["crust"] = "thin"
    /\ cart_file = CartFile(TRUE, TRUE, cart)

\* the pizza has a menu category without a selection
Unselected(p) == \E c \in DOMAIN all_base_options : p.base_options[c] = None

InEditor == pc \in {"edit_pizza", "choose_toppings"}

\* C12: in the pizza editor, finish is refused while any category has no
\* selection (the editor stays at its prompt, pizza, cart and cart file as they
\* were) and with a category unselected the editor is left only by a cancel,
\* which adds nothing to the cart; finish is accepted once every category has a
\* selection (a new pizza then joins the cart with a recipient named); and no
\* step inside the editor turns a selected category back to unselected.
C12_FinishNeedsEveryCategory ==
    [][/\ (pc = "edit_pizza" /\ Unselected(Edited) /\ PickFinish) =>
            /\ pc' = "edit_pizza"
            /\ UNCHANGED <<cart, pizza, cart_file, caller, choice>>
       /\ (pc = "edit_pizza" /\ Unselected(Edited) /\ ~InEditor') => cart' = cart
       /\ (pc = "edit_pizza" /\ ~Unselected(Edited) /\ PickFinish) =>
            /\ ~InEditor'
            /\ caller = "new" =>
                    /\ Len(cart') = Len(cart) + 1
                    /\ cart'[Len(cart')].base_options = pizza.base_options
                    /\ cart'[Len(cart')].recipient # ""
       /\ (InEditor /\ InEditor') =>
            \A c \in DOMAIN all_base_options :
                Edited.base_options[c] # None => Edited'.base_options[c] = Edited.base_options[c]
                                                    \/ Edited'.base_options[c] \in DOMAIN all_base_options[c]]_vars

\* finish has just been refused: one category is selected, the other is not
C12_Witness ==
    /\ pc = "edit_pizza"
    /\ caller = "new"
    /\ "Ingredients marked with an asterisk (*) are required, but not set." \in out
    /\ pizza.base_options["size"] = "large"
    /\ pizza.base_options["crust"] = None

\* C13: a cancelled editing session discards its edits.  edit_pizza's cancel
\* returns at once (line 391), so the cart after the cancel is the cart of the
\* session's beginning exactly when no step of the session has changed it: from
\* the call of edit_pizza up to and including the confirmed cancel, only an
\* accepted finish changes the cart; cancelling a new pizza leaves the cart as it
\* was and the cart file written next holds that cart.
C13_CancelDiscardsEdits ==
    [][/\ (InEditor /\ ~PickFinish) => cart' = cart
       /\ (PickCancel /\ caller = "new" /\ pc' = "menu" /\ "Failed to save cart" \notin out') =>
            cart_file' = CartFile(TRUE, TRUE, Dumps(cart))]_vars

LoopPcs == {"menu", "command_edit", "command_remove", "edit_pizza", "choose_toppings",
            "create_order"}

C15_MalformedBodyIsFinal ==
    pc = "start" =>
        LET r == download_ingredients(Response("ok", GarbageBody), cache_file, "ok",
                                      all_base_options, all_toppings)
        IN  /\ ~r.raised
            /\ ~r.ret
            /\ r.cache = cache_file
            /\ r.base = all_base_options
            /\ r.toppings = all_toppings
            /\ r.out = {"Malformed ingredient data received from endpoint"}

\* main has returned after a malformed body although the cache held a good menu
C15_Witness ==
    /\ pc = "returned"
    /\ "Malformed ingredient data received from endpoint" \in out
    /\ cache_file = File(TRUE, Body(TRUE, GoodDoc))
    /\ all_base_options = EmptyDict
    /\ ~download_succeeded

\* the set of the names in a list of toppings
Names(list) == {list[i] : i \in 1..Len(list)}

NoDuplicates(list) == \A i, j \in 1..Len(list) : list[i] = list[j] => i = j

\* C16: in choose_toppings one toggle flips the membership of the topping chosen
\* and of no other, two toggles of the same topping return the set of selected
\* toppings to what it was, and no pizza of the program (in the editor or in the
\* cart) ever holds a topping name twice.
C16_ToggleIsItsOwnInverse ==
    /\ \A i \in 1..Len(cart) : NoDuplicates(cart[i].toppings)
    /\ NoDuplicates(pizza.toppings)
    /\ pc = "choose_toppings" =>
            \A t \in DOMAIN all_toppings :
                LET before == Edited.toppings
                    once == Toggle(before, t)
                    twice == Toggle(once, t)
                IN  /\ (t \in Names(once)) # (t \in Names(before))
                    /\ Names(once) \ {t} = Names(before) \ {t}
                    /\ Names(twice) = Names(before)
                    /\ NoDuplicates(once)
                    /\ NoDuplicates(twice)

\* a cart pizza is in choose_toppings with both toppings selected, the one
\* toggled last at the end of the list
C16_Witness ==
    /\ pc = "choose_toppings"
    /\ caller = "edit"
    /\ cart[choice].toppings = <<"ham", "cheese">>

\* every pizza whose names exist in the menu of the state: each category
\* selected or not, up to two toppings in any order (a name twice included)
MenuPizzas ==
    {Pizza(b, t, "") :
        b \in {f \in [DOMAIN all_base_options ->
                        {None} \cup UNION {DOMAIN all_base_options[c] : c \in DOMAIN all_base_options}] :
                    \A c \in DOMAIN f : f[c] = None \/ f[c] \in DOMAIN all_base_options[c]},
        t \in UNION {[1..n -> DOMAIN all_toppings] : n \in 0..2}}

\* the price of the selection of one category, nothing when unselected
SelectionPrice(p, c) ==
    IF p.base_options[c] = None THEN 0 ELSE all_base_options[c][p.base_options[c]]

RECURSIVE ToppingsPrice(_)
ToppingsPrice(list) ==
    IF list = <<>> THEN 0 ELSE all_toppings[Head(list)] + ToppingsPrice(Tail(list))

\* calculate_pizza_price does not raise and returns the prices of the selected
\* options plus the prices of the selected toppings (two categories, size and crust)
PricedAsTheSum(p) ==
    /\ ~PriceRaises(p)
    /\ calculate_pizza_price(p) =
            SelectionPrice(p, "size") + SelectionPrice(p, "crust") + ToppingsPrice(p.toppings)

\* C17: calculate_pizza_price returns the prices of the selected options (nothing
\* for an unselected category) plus the prices of the selected toppings: for
\* every pizza of the cart and the pizza in the editor in every state, and, where
\* the top-level menu shows the total, for every pizza whose names exist in the
\* menu; with large at 12.00 and cheese at 1.50 a large pizza with cheese and no
\* crust chosen costs 13.50.
C17_PriceIsTheSumOfTheSelections ==
    /\ DOMAIN all_base_options = {"size", "crust"}
    /\ \A i \in 1..Len(cart) : PricedAsTheSum(cart[i])
    /\ InEditor => PricedAsTheSum(Edited)
    /\ pc = "menu" =>
            /\ \A p \in MenuPizzas : PricedAsTheSum(p)
            /\ calculate_pizza_price(Pizza([size |-> "large", crust |-> None], <<"cheese">>, "")) = 1350

\* the editor shows a new pizza, large with cheese and the crust not yet chosen
C17_Witness ==
    /\ pc = "edit_pizza"
    /\ caller = "new"
    /\ pizza = Pizza([size |-> "large", crust |-> None], <<"cheese">>, "")
    /\ all_base_options["size"]["large"] = 1200
    /\ all_toppings["cheese"] = 150

\* the order files that were written whole
WrittenOrders == {p \in OrderPaths : orders[p].json}

\* the id field of the document at path p, read as an identifier: line 324
\* writes order_id, the clock second without a suffix
IdWritten(p) == <<orders[p].id, NoSuffix>>

\* C18: the id written inside an order document is the identifier the file is
\* stored under (the clock second and, when one was needed, the collision
\* suffix), so that no two order documents carry the same id.
C18_OrderIdIsTheStoredIdentifier ==
    /\ \A p \in WrittenOrders : IdWritten(p) = p
    /\ \A p, q \in WrittenOrders : p # q => orders[p].id # orders[q].id

\* a pizza as it may be ordered: every category of the menu selected with one
\* of its options, and a recipient named
Complete(p) ==
    /\ \A c \in DOMAIN GoodBaseOptions :
            /\ c \in DOMAIN p.base_options
            /\ p.base_options[c] \in DOMAIN GoodBaseOptions[c]
    /\ p.recipient # ""

\* C19: whatever the user does, in this run and in runs before it, every order
\* file written holds at least one pizza, and every pizza of the cart, of the
\* cart file and of a written order has a selection for every menu category and
\* a recipient that is not empty.
C19_OnlyCompletePizzasAreKept ==
    /\ \A i \in 1..Len(cart) : Complete(cart[i])
    /\ cart_file.json => \A i \in 1..Len(cart_file.data) : Complete(cart_file.data[i])
    /\ \A p \in WrittenOrders :
            /\ Len(orders[p].items) >= 1
            /\ \A i \in 1..Len(orders[p].items) : Complete(orders[p].items[i])

\* a second run, started on the cart file of the first, has ordered two pizzas
C19_Witness ==
    /\ runs = 2
    /\ pc = "exited"
    /\ \E p \in WrittenOrders : Len(orders[p].items) = 2
    /\ \E p \in OrderPaths : orders[p].exists /\ ~orders[p].json

\* C20: in the edit and remove menus every cart position can be picked and the
\* pizza acted on is the one at the position picked, also when two pizzas show
\* the same label; a remove leaves the cart as it was (declined) or takes out
\* exactly one pizza and keeps the others in their order.
C20_PickedPositionIsActedOn ==
    [][/\ pc \in {"command_edit", "command_remove"} =>
            \A response \in 1..Len(cart) :
                input_menu_indexed(CartLabels(cart), response) = response
       /\ RemovePick =>
            \/ cart' = cart
            \/ \E k \in 1..Len(cart) : cart' = Pop(cart, k)]_vars

====
